---- MODULE Spec2Model ----
(***************************************************************************)
(* Model of the OTP-login / stone-paper-scissor backend (src/server.js,    *)
(* src/models/User.js, src/models/Game.js).                                *)
(*                                                                         *)
(* Every HTTP request is a process that runs its route handler.  A handler *)
(* is split into one action per stretch of code between two awaits on the  *)
(* store, so that the handlers of different requests interleave the way    *)
(* the event loop interleaves them.  The clock is in milliseconds          *)
(* (Date.now()).  Strings that the code trims or matches against a regular *)
(* expression are sequences of one-character strings.                      *)
(***************************************************************************)
EXTENDS Integers, Sequences, FiniteSets, TLC

---------------------------------------------------------------------------
(* Bounds of the model *)

\* number of requests to the auth routes in one behaviour of Spec
MaxAuthReq == 3
\* number of requests to the auth routes and to the protected routes in one
\* behaviour of SpecSession
MaxSessionAuthReq == 3
MaxSessionGateReq == 1
\* number of requests to the protected routes in one behaviour of SpecGate
MaxGateReq == 2
\* number of requests to the protected routes in one behaviour of SpecGame
MaxGameReq == 2
\* number of requests to the protected routes in one behaviour of SpecRound
MaxRoundReq == 2
\* number of requests to the protected routes in one behaviour of SpecLog
MaxLogReq == 2
\* number of requests to the auth routes in one behaviour of SpecInput
MaxInputReq == 2

\* the instants (ms) at which the clock is observed: 0, the expiry of a code
\* issued at 0 and the millisecond after it
OtpInstants == {0, 120000, 120001}
\* 0 and a sub-second offset, and the milliseconds before and after the
\* end of the first hour
SessionInstants == {0, 500, 3599999, 3600001}
\* the instants at which games are played
GameInstants == {0, 500}
\* 0, the end of the first hour and the millisecond after it
GateInstants == {0, 3600000, 3600001}
\* the instant of the last round of the log of SpecLog, and the next one
LogInstants == {10, 11}

---------------------------------------------------------------------------
(* Program constants *)

OtpTtlMs == 2 * 60 * 1000
MsPerSec == 1000
JwtTtlSec == 3600
HistoryLimit == 10
JWT_SECRET == "JWT_SECRET"

\* const choices = ["stone", "paper", "scissor"]
Stone == <<"s", "t", "o", "n", "e">>
Paper == <<"p", "a", "p", "e", "r">>
Scissor == <<"s", "c", "i", "s", "s", "o", "r">>
choices == <<Stone, Paper, Scissor>>

---------------------------------------------------------------------------
(* JavaScript values of a request body *)

Undefined == [t |-> "undefined", s |-> <<>>, n |-> 0]
Str(chars) == [t |-> "string", s |-> chars, n |-> 0]
Num(k) == [t |-> "number", s |-> <<>>, n |-> k]

\* !v
Falsy(v) ==
    \/ v.t = "undefined"
    \/ v.t = "string" /\ v.s = <<>>
    \/ v.t = "number" /\ v.n = 0

\* v.trim() exists only on strings; on any other value the call throws
HasTrim(v) == v.t = "string"

WhiteSpace == {" ", "\t", "\n"}

RECURSIVE TrimStart(_)
TrimStart(s) ==
    IF s # <<>> /\ Head(s) \in WhiteSpace THEN TrimStart(Tail(s)) ELSE s

RECURSIVE TrimEnd(_)
TrimEnd(s) ==
    IF s # <<>> /\ s[Len(s)] \in WhiteSpace
    THEN TrimEnd(SubSeq(s, 1, Len(s) - 1))
    ELSE s

\* String.prototype.trim
Trim(s) == TrimEnd(TrimStart(s))

DigitChars == {"0", "1", "2", "3", "4", "5", "6", "7", "8", "9"}

\* /^\d{k}$/.test(s)
MatchesDigits(s, k) == Len(s) = k /\ \A i \in 1..Len(s) : s[i] \in DigitChars

\* /^\d{10}$/.test(mobile)
MobileFormatOk(s) == MatchesDigits(s, 10)

\* /^\d{4}$/.test(otp)
OtpFormatOk(s) == MatchesDigits(s, 4)

---------------------------------------------------------------------------
(* Inputs *)

MobileA == <<"9", "8", "7", "6", "5", "4", "3", "2", "1", "0">>
MobileB == <<"9", "1", "2", "3", "4", "5", "6", "7", "8", "0">>
Mobiles == {MobileA, MobileB}

\* codes that Math.floor(1000 + Math.random() * 9000).toString() can draw:
\* the two ends of the range
OtpLow == <<"1", "0", "0", "0">>
OtpHigh == <<"9", "9", "9", "9">>
OtpCodes == {OtpLow, OtpHigh}
\* the code drawn in the behaviours of SpecSession
SessionOtpCodes == {OtpLow}

\* the mobile field of a body: valid, valid with white space around it,
\* nine digits, missing, and a number
MobileInputs ==
    {Str(MobileA), Str(MobileB), Str(<<" ">> \o MobileA \o <<"\n">>),
     Str(SubSeq(MobileA, 1, 9)), Undefined, Num(7)}

\* the otp field of a body
OtpInputs ==
    {Str(OtpLow), Str(OtpHigh), Str(OtpLow \o <<" ">>),
     Str(<<"1", "2", "a", "4">>), Undefined, Num(1000)}

\* inputs of the behaviours of Spec: one phone, and one malformed value of
\* each field
AuthMobileInputs == {Str(MobileA), Str(SubSeq(MobileA, 1, 9))}
AuthOtpInputs == {Str(OtpLow), Str(OtpHigh), Undefined}

\* inputs of the behaviours of SpecSession
SessionMobileInputs == {Str(MobileA)}
SessionOtpInputs == {Str(OtpLow)}

\* the choice field of a body
ChoiceInputs ==
    {Str(Stone), Str(Paper), Str(Scissor), Str(<<"r", "o", "c", "k">>), Undefined}
SessionChoiceInputs == {Str(Stone)}
GameChoiceInputs == {Str(Stone), Undefined}

\* the userId field that a client adds to a body or query: none, or the key
\* of a stored identity
BodyUserIds == {0, 3}

---------------------------------------------------------------------------
(* bcryptjs *)

NoHash == [set |-> FALSE, code |-> <<>>, salt |-> 0]

\* bcrypt.hash(otp, 10): a digest of the code under a fresh random salt
BcryptHash(otp, salt) == [set |-> TRUE, code |-> otp, salt |-> salt]

\* bcrypt.compare(otp, hash) rejects (throws) when hash is not a string
BcryptCompareThrows(hash) == ~hash.set

\* a comparison that accepts every code against a stored hash
BcryptCompareAny(otp, hash) == hash.set

\* bcrypt.compare(otp, hash)
BcryptCompare(otp, hash) == hash.set /\ hash.code = otp

---------------------------------------------------------------------------
(* jsonwebtoken *)

NoToken == [userId |-> 0, iat |-> -1, exp |-> -1, sig |-> "none"]

\* a token that is valid for a minute
JwtSignOneMinute(userId, t) ==
    [userId |-> userId, iat |-> t \div MsPerSec,
     exp |-> (t \div MsPerSec) + 60, sig |-> JWT_SECRET]

\* jwt.sign({ userId }, JWT_SECRET, { expiresIn: "1h" }) at clock value t:
\* iat is the clock in whole seconds
JwtSign(userId, t) ==
    [userId |-> userId, iat |-> t \div MsPerSec,
     exp |-> (t \div MsPerSec) + JwtTtlSec, sig |-> JWT_SECRET]

\* a verification of the signature alone
JwtVerifyOkNoExpiry(token, t) == token.sig = JWT_SECRET

\* jwt.verify(token, JWT_SECRET) returns the payload at clock value t
JwtVerifyOk(token, t) ==
    /\ token.sig = JWT_SECRET
    /\ ~((t \div MsPerSec) >= token.exp)

---------------------------------------------------------------------------
(* Store records *)

NullDate == -1

\* no document of the users collection for a mobile
NoUser == [exists |-> FALSE, id |-> 0, otpHash |-> NoHash, otpExpiry |-> NullDate]

NoGame ==
    [id |-> 0, userId |-> 0, userChoice |-> <<>>, computerChoice |-> <<>>,
     result |-> "", createdAt |-> NullDate]

NoStats == [win |-> 0, lose |-> 0, draw |-> 0]

NoHeader == [present |-> FALSE, parts |-> <<>>]

VARIABLES
    now,      \* Date.now()
    users,    \* the users collection, by mobile (unique index)
    games,    \* the games collection, in insertion order
    reqs      \* the requests received so far, with the locals of their handlers

vars == <<now, users, games, reqs>>

---------------------------------------------------------------------------
(* Requests *)

\* a body (or query) without any field; userId is a field that no handler
\* reads (0: not sent)
NoBody == [mobile |-> Undefined, otp |-> Undefined, choice |-> Undefined, userId |-> 0]

\* a request as it arrives: its route, headers and body, and the locals of
\* its handler, not yet assigned.  at is the clock value that the code run on
\* arrival reads (Date.now() in request-otp, the clock of jwt.verify on the
\* protected routes; verify-otp reads none on arrival).
NewReq(route, header, body, t) ==
    [route |-> route, pc |-> "start", at |-> t, header |-> header, body |-> body,
     mobile |-> <<>>, otp |-> <<>>, otpHash |-> NoHash, otpExpiry |-> NullDate,
     user |-> NoUser, checkedAt |-> NullDate, userId |-> 0, game |-> NoGame,
     status |-> 0, error |-> "", token |-> NoToken, list |-> <<>>,
     stats |-> NoStats]

\* res.status(status).json({ error }): the handler returns
Fail(r, status, error) == [r EXCEPT !.pc = "done", !.status = status, !.error = error]

AuthRoutes == {"request-otp", "verify-otp"}
GateRoutes == {"play", "history", "scoreboard"}

NumReqs(routes) == Cardinality({i \in 1..Len(reqs) : reqs[i].route \in routes})

\* the requests of a route whose handler is at a given await
At(route, pc) == {i \in 1..Len(reqs) : reqs[i].route = route /\ reqs[i].pc = pc}

---------------------------------------------------------------------------
(* The users collection *)

\* User.findOne({ mobile })
FindUser(mobile) == users[mobile]

\* user.save() of a document made by new User({ mobile }): an insert, which
\* the unique index on mobile rejects when the mobile is already stored
InsertRejected(mobile) == users[mobile].exists

\* user.save() of a document made by new User({ mobile }) that the index
\* admits: the whole document is inserted
SaveOtp(mobile, id, hash, expiry) ==
    [users EXCEPT ![mobile] =
        [exists |-> TRUE, id |-> id, otpHash |-> hash, otpExpiry |-> expiry]]

\* user.save() of a document read by findOne: mongoose updates, in the stored
\* document with that _id, the paths whose assigned value differs from the
\* value that findOne returned, and leaves the other paths as stored
SaveModified(mobile, read, hash, expiry) ==
    [users EXCEPT
        ![mobile].otpHash = IF hash # read.otpHash THEN hash ELSE @,
        ![mobile].otpExpiry = IF expiry # read.otpExpiry THEN expiry ELSE @]

---------------------------------------------------------------------------
(* POST /auth/request-otp *)

\* an expiry without the two minutes
NewOtpExpiryNow(t) == t

\* otpExpiry = new Date(Date.now() + 2 * 60 * 1000)
NewOtpExpiry(t) == t + OtpTtlMs

\* The handler up to its first store call.  The clock is read once, after
\* bcrypt.hash has resolved, so the whole stretch is placed at that instant.
\* The salt of the hash and the _id of a new document are fresh values: the
\* number of the request.  codes are the codes that Math.random() can draw.
RequestOtpBegin(r0, id, codes) ==
    LET m == r0.body.mobile IN
    IF Falsy(m) THEN {Fail(r0, 400, "Mobile required")}
    ELSE IF ~HasTrim(m) THEN {Fail(r0, 500, "Server error")}
    ELSE IF ~MobileFormatOk(Trim(m.s))
    THEN {Fail(r0, 400, "Invalid mobile number format (10 digits required)")}
    ELSE {[r0 EXCEPT !.pc = "find", !.mobile = Trim(m.s), !.otp = otp,
                     !.otpHash = BcryptHash(otp, id),
                     !.otpExpiry = NewOtpExpiry(now)] : otp \in codes}

RequestOtp(mobileInputs, codes, limit) ==
    /\ NumReqs(AuthRoutes) < limit
    /\ \E m \in mobileInputs :
        \E r \in RequestOtpBegin(
                    NewReq("request-otp", NoHeader, [NoBody EXCEPT !.mobile = m], now),
                    Len(reqs) + 1, codes) :
            reqs' = Append(reqs, r)
    /\ UNCHANGED <<now, users, games>>

\* let user = await User.findOne({ mobile }); if (!user) user = new User(...)
RequestOtpFind ==
    /\ \E i \in At("request-otp", "find") :
        reqs' = [reqs EXCEPT ![i].pc = "save", ![i].user = FindUser(reqs[i].mobile)]
    /\ UNCHANGED <<now, users, games>>

\* await user.save(); res.json({ message: "OTP sent", otp })
RequestOtpSave ==
    /\ \E i \in At("request-otp", "save") :
        LET r == reqs[i] IN
        IF ~r.user.exists /\ InsertRejected(r.mobile)
        THEN /\ reqs' = [reqs EXCEPT ![i] = Fail(r, 500, "Server error")]
             /\ UNCHANGED users
        ELSE /\ users' = IF r.user.exists
                          THEN SaveModified(r.mobile, r.user, r.otpHash, r.otpExpiry)
                          ELSE SaveOtp(r.mobile, i, r.otpHash, r.otpExpiry)
             /\ reqs' = [reqs EXCEPT ![i].pc = "done", ![i].status = 200]
    /\ UNCHANGED <<now, games>>

---------------------------------------------------------------------------
(* POST /auth/verify-otp *)

\* an expiry test that takes a cleared otpExpiry for a pending one
OtpExpiredUnlessCleared(user, t) == user.otpExpiry # NullDate /\ user.otpExpiry < t

\* an expiry test without the comparison with the clock
OtpExpiredNever(user, t) == user.otpExpiry = NullDate

\* an expiry test that also rejects at the expiry instant itself
OtpExpiredAtOrAfter(user, t) == user.otpExpiry = NullDate \/ user.otpExpiry <= t

\* !user.otpExpiry || user.otpExpiry < new Date()
OtpExpired(user, t) == user.otpExpiry = NullDate \/ user.otpExpiry < t

\* The handler up to its first store call
VerifyOtpBegin(r0) ==
    LET m == r0.body.mobile
        o == r0.body.otp
    IN  IF Falsy(m) \/ Falsy(o) THEN Fail(r0, 400, "Mobile and OTP required")
        ELSE IF ~HasTrim(m) \/ ~HasTrim(o) THEN Fail(r0, 500, "Server error")
        ELSE IF ~MobileFormatOk(Trim(m.s)) \/ ~OtpFormatOk(Trim(o.s))
        THEN Fail(r0, 400, "Invalid mobile or OTP format")
        ELSE [r0 EXCEPT !.pc = "find", !.mobile = Trim(m.s), !.otp = Trim(o.s)]

VerifyOtp(mobileInputs, otpInputs, limit) ==
    /\ NumReqs(AuthRoutes) < limit
    /\ \E m \in mobileInputs, o \in otpInputs :
        reqs' = Append(reqs,
                    VerifyOtpBegin(NewReq("verify-otp", NoHeader,
                                          [NoBody EXCEPT !.mobile = m, !.otp = o],
                                          NullDate)))
    /\ UNCHANGED <<now, users, games>>

\* const user = await User.findOne({ mobile }); if (!user) return 400
VerifyOtpFind ==
    /\ \E i \in At("verify-otp", "find") :
        LET u == FindUser(reqs[i].mobile) IN
        reqs' = [reqs EXCEPT ![i] =
                    IF ~u.exists THEN Fail(@, 400, "User not found")
                    ELSE [@ EXCEPT !.pc = "check", !.user = u]]
    /\ UNCHANGED <<now, users, games>>

\* a handler that compares the code before it tests the expiry
VerifyOtpCheckedCompareFirst(r, t) ==
    LET c == [r EXCEPT !.checkedAt = t] IN
    IF BcryptCompareThrows(r.user.otpHash) THEN Fail(c, 500, "Server error")
    ELSE IF ~BcryptCompare(r.otp, r.user.otpHash) THEN Fail(c, 400, "Invalid OTP")
    ELSE IF OtpExpired(r.user, t) THEN Fail(c, 400, "OTP expired")
    ELSE [c EXCEPT !.pc = "save"]

\* The expiry test against the clock and bcrypt.compare, on the document
\* that findOne returned
VerifyOtpChecked(r, t) ==
    LET c == [r EXCEPT !.checkedAt = t] IN
    IF OtpExpired(r.user, t) THEN Fail(c, 400, "OTP expired")
    ELSE IF BcryptCompareThrows(r.user.otpHash) THEN Fail(c, 500, "Server error")
    ELSE IF ~BcryptCompare(r.otp, r.user.otpHash) THEN Fail(c, 400, "Invalid OTP")
    ELSE [c EXCEPT !.pc = "save"]

VerifyOtpCheck ==
    /\ \E i \in At("verify-otp", "check") :
        reqs' = [reqs EXCEPT ![i] = VerifyOtpChecked(@, now)]
    /\ UNCHANGED <<now, users, games>>

\* user.otpHash = null; user.otpExpiry = null; await user.save();
\* const token = jwt.sign(...); res.json({ token })
VerifyOtpSave ==
    /\ \E i \in At("verify-otp", "save") :
        LET r == reqs[i] IN
        /\ users' = SaveModified(r.mobile, r.user, NoHash, NullDate)
        /\ reqs' = [reqs EXCEPT ![i].pc = "done", ![i].status = 200,
                                ![i].token = JwtSign(r.user.id, now)]
    /\ UNCHANGED <<now, games>>

---------------------------------------------------------------------------
(* authMiddleware *)

\* one piece of authHeader.split(" "): a word, the empty string, or a
\* well-formed JSON web token
Word(txt) == [txt |-> txt, tok |-> NoToken]
Jwt(tok) == [txt |-> "jwt", tok |-> tok]

\* req.headers["authorization"], as its pieces between single spaces
Header(parts) == [present |-> TRUE, parts |-> parts]

\* !authHeader: the header is missing or is the empty string
NoAuthHeader(h) == ~h.present \/ h.parts = <<Word("")>>

\* !token, for token = authHeader.split(" ")[1]
NoTokenPart(h) == Len(h.parts) < 2 \/ h.parts[2].txt = ""

\* the outcome of authMiddleware at clock value t: next() is called with
\* req.userId set, or the request is answered 401
AuthMiddleware(h, t) ==
    IF NoAuthHeader(h) THEN [ok |-> FALSE, userId |-> 0, error |-> "No token provided"]
    ELSE IF NoTokenPart(h) THEN [ok |-> FALSE, userId |-> 0, error |-> "No token provided"]
    ELSE IF h.parts[2].txt = "jwt" /\ JwtVerifyOk(h.parts[2].tok, t)
    THEN [ok |-> TRUE, userId |-> h.parts[2].tok.userId, error |-> ""]
    ELSE [ok |-> FALSE, userId |-> 0, error |-> "Invalid or expired token"]

\* the request after authMiddleware: answered 401, or handed to the route
\* handler with req.userId
Gate(r0, t) ==
    LET a == AuthMiddleware(r0.header, t) IN
    IF a.ok THEN [r0 EXCEPT !.pc = "handler", !.userId = a.userId]
    ELSE Fail(r0, 401, a.error)

\* the tokens that verify-otp has returned so far
Minted ==
    {reqs[i].token : i \in {j \in 1..Len(reqs) :
                                reqs[j].route = "verify-otp" /\ reqs[j].status = 200}}

\* tokens for the stored identities that a client signs with a key of its own
Forged ==
    {[JwtSign(users[m].id, now) EXCEPT !.sig = "other"] :
        m \in {k \in Mobiles : users[k].exists}}

\* the Authorization headers a client can send
Headers ==
    {NoHeader, Header(<<Word("")>>), Header(<<Word("Bearer")>>),
     Header(<<Word("Bearer"), Word("")>>), Header(<<Word("Bearer"), Word("garbage")>>)}
    \cup {Header(<<Word("Bearer"), Jwt(tok)>>) : tok \in Minted \cup Forged}

\* the headers of the behaviours of SpecSession and of SpecGame
SessionHeaders ==
    {NoHeader, Header(<<Word("Bearer")>>)}
    \cup {Header(<<Word("Bearer"), Jwt(tok)>>) : tok \in Minted \cup Forged}
GameHeaders ==
    {Header(<<Word("Bearer"), Jwt(tok)>>) : tok \in Minted}

---------------------------------------------------------------------------
(* POST /play *)

\* a test that admits every string
ValidChoiceAnyString(v) == v.t = "string"

\* choices.includes(userChoice)
ValidChoice(v) == v.t = "string" /\ \E k \in 1..Len(choices) : choices[k] = v.s

\* a result with the two sides of the beats-relation exchanged
OutcomeExchanged(userChoice, computerChoice) ==
    IF userChoice = computerChoice THEN "draw"
    ELSE IF \/ computerChoice = Stone /\ userChoice = Scissor
            \/ computerChoice = Paper /\ userChoice = Stone
            \/ computerChoice = Scissor /\ userChoice = Paper
         THEN "win"
         ELSE "lose"

\* the result of a round
Outcome(userChoice, computerChoice) ==
    IF userChoice = computerChoice THEN "draw"
    ELSE IF \/ userChoice = Stone /\ computerChoice = Scissor
            \/ userChoice = Paper /\ computerChoice = Stone
            \/ userChoice = Scissor /\ computerChoice = Paper
         THEN "win"
         ELSE "lose"

\* a document that keeps the initial value of result ("lose")
NewGameLose(id, userId, userChoice, computerChoice, t) ==
    [id |-> id, userId |-> userId, userChoice |-> userChoice,
     computerChoice |-> computerChoice, result |-> "lose", createdAt |-> t]

\* new Game({ userId: req.userId, userChoice, computerChoice, result }) at
\* clock value t, with a fresh _id
NewGame(id, userId, userChoice, computerChoice, t) ==
    [id |-> id, userId |-> userId, userChoice |-> userChoice,
     computerChoice |-> computerChoice,
     result |-> Outcome(userChoice, computerChoice), createdAt |-> t]

\* authMiddleware and the handler up to game.save()
PlayBegin(r0, id) ==
    LET g == Gate(r0, now) IN
    IF g.pc = "done" THEN {g}
    ELSE IF ~ValidChoice(g.body.choice) THEN {Fail(g, 400, "Invalid choice")}
    ELSE {[g EXCEPT !.pc = "save",
                    !.game = NewGame(id, g.userId, g.body.choice.s, choices[k], now)] :
            k \in 1..Len(choices)}

Play(headers, choiceInputs, userIds, limit) ==
    /\ NumReqs(GateRoutes) < limit
    /\ \E h \in headers, c \in choiceInputs, u \in userIds :
        \E r \in PlayBegin(NewReq("play", h,
                                  [NoBody EXCEPT !.choice = c, !.userId = u], now),
                           Len(reqs) + 1) :
            reqs' = Append(reqs, r)
    /\ UNCHANGED <<now, users, games>>

\* await game.save(); res.json({ userChoice, computerChoice, result })
PlaySave ==
    /\ \E i \in At("play", "save") :
        /\ games' = Append(games, reqs[i].game)
        /\ reqs' = [reqs EXCEPT ![i].pc = "done", ![i].status = 200]
    /\ UNCHANGED <<now, users>>

---------------------------------------------------------------------------
(* GET /history *)

\* a find without the filter
FindGamesAll(userId) == games

\* Game.find({ userId })
FindGames(userId) == SelectSeq(games, LAMBDA g : g.userId = userId)

\* .sort({ createdAt: -1 }): documents of equal createdAt come in an order
\* the store chooses (first: whether the later-inserted one comes first)
RECURSIVE InsertDesc(_, _, _)
InsertDesc(g, s, first) ==
    IF s = <<>> THEN <<g>>
    ELSE IF \/ g.createdAt > Head(s).createdAt
            \/ g.createdAt = Head(s).createdAt /\ first
         THEN <<g>> \o s
         ELSE <<Head(s)>> \o InsertDesc(g, Tail(s), first)

RECURSIVE SortDesc(_, _)
SortDesc(s, first) ==
    IF s = <<>> THEN <<>>
    ELSE InsertDesc(s[Len(s)], SortDesc(SubSeq(s, 1, Len(s) - 1), first), first)

\* a query without the limit
LimitAll(s, k) == s

\* .limit(10)
Limit(s, k) == SubSeq(s, 1, IF Len(s) < k THEN Len(s) ELSE k)

\* a query without the sort
HistoryOfUnsorted(userId, first) == Limit(FindGames(userId), HistoryLimit)

\* Game.find({ userId: req.userId }).sort({ createdAt: -1 }).limit(10)
HistoryOf(userId, first) == Limit(SortDesc(FindGames(userId), first), HistoryLimit)

History(headers, userIds, limit) ==
    /\ NumReqs(GateRoutes) < limit
    /\ \E h \in headers, u \in userIds :
        LET g == Gate(NewReq("history", h, [NoBody EXCEPT !.userId = u], now), now) IN
        reqs' = Append(reqs, IF g.pc = "done" THEN g ELSE [g EXCEPT !.pc = "find"])
    /\ UNCHANGED <<now, users, games>>

HistoryFind ==
    /\ \E i \in At("history", "find"), first \in BOOLEAN :
        reqs' = [reqs EXCEPT ![i].pc = "done", ![i].status = 200,
                             ![i].list = HistoryOf(reqs[i].userId, first)]
    /\ UNCHANGED <<now, users, games>>

---------------------------------------------------------------------------
(* GET /scoreboard *)

\* if (stats[g.result] !== undefined) stats[g.result]++
Count(stats, g) ==
    IF g.result \in DOMAIN stats THEN [stats EXCEPT ![g.result] = @ + 1] ELSE stats

\* games.forEach(...) from stats = { win: 0, lose: 0, draw: 0 }
RECURSIVE Tally(_, _)
Tally(gs, stats) ==
    IF gs = <<>> THEN stats ELSE Tally(Tail(gs), Count(stats, Head(gs)))

\* a tally over the rounds of a history only
StatsOfRecent(userId) == Tally(HistoryOf(userId, TRUE), NoStats)

\* const games = await Game.find({ userId: req.userId }); games.forEach(...)
StatsOf(userId) == Tally(FindGames(userId), NoStats)

Scoreboard(headers, userIds, limit) ==
    /\ NumReqs(GateRoutes) < limit
    /\ \E h \in headers, u \in userIds :
        LET g == Gate(NewReq("scoreboard", h, [NoBody EXCEPT !.userId = u], now), now) IN
        reqs' = Append(reqs, IF g.pc = "done" THEN g ELSE [g EXCEPT !.pc = "find"])
    /\ UNCHANGED <<now, users, games>>

ScoreboardFind ==
    /\ \E i \in At("scoreboard", "find") :
        reqs' = [reqs EXCEPT ![i].pc = "done", ![i].status = 200,
                             ![i].stats = StatsOf(reqs[i].userId)]
    /\ UNCHANGED <<now, users, games>>

---------------------------------------------------------------------------
(* The clock *)

\* the clock moves on to the next instant
Tick(instants) ==
    /\ \E t \in instants :
        /\ t > now
        /\ \A u \in instants : u > now => t <= u
        /\ now' = t
    /\ UNCHANGED <<users, games, reqs>>

---------------------------------------------------------------------------
(* Specifications *)

\* no document in either collection, no request received
Init ==
    /\ now = 0
    /\ users = [m \in Mobiles |-> NoUser]
    /\ games = <<>>
    /\ reqs = <<>>

\* the auth routes
Next ==
    \/ RequestOtp(AuthMobileInputs, OtpCodes, MaxAuthReq)
    \/ RequestOtpFind
    \/ RequestOtpSave
    \/ VerifyOtp(AuthMobileInputs, AuthOtpInputs, MaxAuthReq)
    \/ VerifyOtpFind
    \/ VerifyOtpCheck
    \/ VerifyOtpSave
    \/ Tick(OtpInstants)

Spec == Init /\ [][Next]_vars

\* the auth routes and the protected routes, over the life of a token
NextSession ==
    \/ RequestOtp(SessionMobileInputs, SessionOtpCodes, MaxSessionAuthReq)
    \/ RequestOtpFind
    \/ RequestOtpSave
    \/ VerifyOtp(SessionMobileInputs, SessionOtpInputs, MaxSessionAuthReq)
    \/ VerifyOtpFind
    \/ VerifyOtpCheck
    \/ VerifyOtpSave
    \/ Play(SessionHeaders, SessionChoiceInputs, {0}, MaxSessionGateReq)
    \/ PlaySave
    \/ History(SessionHeaders, {0}, MaxSessionGateReq)
    \/ HistoryFind
    \/ Scoreboard(SessionHeaders, {0}, MaxSessionGateReq)
    \/ ScoreboardFind
    \/ Tick(SessionInstants)

SpecSession == Init /\ [][NextSession]_vars

\* The state after two phones have logged in at the first instant: each has
\* requested a code and verified it.
LoggedIn(i, mobile, otp) ==
    LET q == [NewReq("request-otp", NoHeader,
                     [NoBody EXCEPT !.mobile = Str(mobile)], 0)
                EXCEPT !.pc = "done", !.status = 200, !.mobile = mobile, !.otp = otp,
                       !.otpHash = BcryptHash(otp, i),
                       !.otpExpiry = NewOtpExpiry(0)]
        u == [exists |-> TRUE, id |-> i, otpHash |-> q.otpHash,
              otpExpiry |-> q.otpExpiry]
        v == [NewReq("verify-otp", NoHeader,
                     [NoBody EXCEPT !.mobile = Str(mobile), !.otp = Str(otp)],
                     NullDate)
                EXCEPT !.pc = "done", !.status = 200, !.mobile = mobile, !.otp = otp,
                       !.user = u, !.checkedAt = 0, !.token = JwtSign(i, 0)]
    IN <<q, v>>

\* a round that an identity has played at the first instant, as request i
Played(i, userId, userChoice, computerChoice) ==
    [NewReq("play", Header(<<Word("Bearer"), Jwt(JwtSign(userId, 0))>>),
            [NoBody EXCEPT !.choice = Str(userChoice)], 0)
        EXCEPT !.pc = "done", !.status = 200, !.userId = userId,
               !.game = NewGame(i, userId, userChoice, computerChoice, 0)]

\* the requests before the first state of SpecGame: two phones have logged
\* in and each has played one round
InitGameReqs ==
    LoggedIn(1, MobileA, OtpLow) \o LoggedIn(3, MobileB, OtpHigh)
    \o <<Played(5, 1, Stone, Scissor), Played(6, 3, Stone, Paper)>>

InitGame ==
    /\ now = 0
    /\ users = [m \in Mobiles |->
                 [exists |-> TRUE, id |-> IF m = MobileA THEN 1 ELSE 3,
                  otpHash |-> NoHash, otpExpiry |-> NullDate]]
    /\ games = <<InitGameReqs[5].game, InitGameReqs[6].game>>
    /\ reqs = InitGameReqs

\* the number of requests to the protected routes in InitGame
InitGameRounds ==
    Cardinality({i \in 1..Len(InitGameReqs) : InitGameReqs[i].route \in GateRoutes})

\* the protected routes
NextGame ==
    \/ Play(GameHeaders, GameChoiceInputs, BodyUserIds, InitGameRounds + MaxGameReq)
    \/ PlaySave
    \/ History(GameHeaders, BodyUserIds, InitGameRounds + MaxGameReq)
    \/ HistoryFind
    \/ Scoreboard(GameHeaders, BodyUserIds, InitGameRounds + MaxGameReq)
    \/ ScoreboardFind
    \/ Tick(GameInstants)

SpecGame == InitGame /\ [][NextGame]_vars

\* the protected routes, with every kind of Authorization header
NextGate ==
    \/ Play(Headers, GameChoiceInputs, {0},
            InitGameRounds + MaxGateReq)
    \/ PlaySave
    \/ History(Headers, {0}, InitGameRounds + MaxGateReq)
    \/ HistoryFind
    \/ Scoreboard(Headers, {0}, InitGameRounds + MaxGateReq)
    \/ ScoreboardFind
    \/ Tick(GateInstants)

SpecGate == InitGame /\ [][NextGate]_vars

\* the protected routes, with every value of the choice field
NextRound ==
    \/ Play(GameHeaders, ChoiceInputs, {0}, InitGameRounds + MaxRoundReq)
    \/ PlaySave
    \/ History(GameHeaders, {0}, InitGameRounds + MaxRoundReq)
    \/ HistoryFind
    \/ Scoreboard(GameHeaders, {0}, InitGameRounds + MaxRoundReq)
    \/ ScoreboardFind
    \/ Tick(GameInstants)

SpecRound == InitGame /\ [][NextRound]_vars

\* a round that an identity has played at clock value t, as request i
PlayedAt(i, userId, userChoice, computerChoice, t) ==
    [NewReq("play", Header(<<Word("Bearer"), Jwt(JwtSign(userId, 0))>>),
            [NoBody EXCEPT !.choice = Str(userChoice)], t)
        EXCEPT !.pc = "done", !.status = 200, !.userId = userId,
               !.game = NewGame(i, userId, userChoice, computerChoice, t)]

\* the number of rounds of the first identity in the log of SpecLog: one
\* more than a history holds
LogRounds == HistoryLimit + 1

\* the requests before the first state of SpecLog: two phones have logged
\* in, the first has played LogRounds rounds, one per millisecond, with every
\* pair of choices among them, and the second has played one round
InitLogReqs ==
    LoggedIn(1, MobileA, OtpLow) \o LoggedIn(3, MobileB, OtpHigh)
    \o [k \in 1..LogRounds |->
            PlayedAt(4 + k, 1, choices[(k % 3) + 1], choices[((k \div 3) % 3) + 1],
                     k - 1)]
    \o <<PlayedAt(4 + LogRounds + 1, 3, Stone, Paper, 0)>>

InitLog ==
    /\ now = LogRounds - 1
    /\ users = [m \in Mobiles |->
                 [exists |-> TRUE, id |-> IF m = MobileA THEN 1 ELSE 3,
                  otpHash |-> NoHash, otpExpiry |-> NullDate]]
    /\ games = [k \in 1..(LogRounds + 1) |-> InitLogReqs[4 + k].game]
    /\ reqs = InitLogReqs

\* the number of requests to the protected routes in InitLog
InitLogRounds ==
    Cardinality({i \in 1..Len(InitLogReqs) : InitLogReqs[i].route \in GateRoutes})

\* the protected routes, on a log longer than a history
NextLog ==
    \/ Play(GameHeaders, SessionChoiceInputs, {0}, InitLogRounds + MaxLogReq)
    \/ PlaySave
    \/ History(GameHeaders, {0}, InitLogRounds + MaxLogReq)
    \/ HistoryFind
    \/ Scoreboard(GameHeaders, {0}, InitLogRounds + MaxLogReq)
    \/ ScoreboardFind
    \/ Tick(LogInstants)

SpecLog == InitLog /\ [][NextLog]_vars

\* the auth routes, with every value of the mobile and otp fields
NextInput ==
    \/ RequestOtp(MobileInputs, SessionOtpCodes, MaxInputReq)
    \/ RequestOtpFind
    \/ RequestOtpSave
    \/ VerifyOtp(MobileInputs, OtpInputs, MaxInputReq)
    \/ VerifyOtpFind
    \/ VerifyOtpCheck
    \/ VerifyOtpSave
    \/ Tick(OtpInstants)

SpecInput == Init /\ [][NextInput]_vars

---------------------------------------------------------------------------
(* Properties: the one-time code *)

Idx == 1..Len(reqs)

\* request i is a request to the route and its handler has returned
Done(i, route) == reqs[i].route = route /\ reqs[i].pc = "done"

\* the handler of request i returns in this step
Returns(i) == i \in Idx /\ reqs[i].pc # "done" /\ reqs'[i].pc = "done"

\* verify-otp request r found the identity holding the hash and the expiry
\* that request-otp request q assigned
ReadCodeOf(r, q) ==
    /\ r.route = "verify-otp" /\ q.route = "request-otp"
    /\ r.mobile = q.mobile
    /\ r.user.exists /\ r.user.otpHash = q.otpHash
    /\ r.user.otpExpiry = q.otpExpiry

\* verify-otp request r succeeded: 200 and a token for the identity key k
Verified(r, k) ==
    /\ r.status = 200 /\ r.error = ""
    /\ r.token = [userId |-> k, iat |-> r.token.iat, exp |-> r.token.exp,
                  sig |-> JWT_SECRET]

SecondVerify(r) ==
    /\ r.route = "verify-otp" /\ r.pc = "done"
    /\ r.user.exists /\ r.user.otpExpiry = NullDate /\ r.user.otpHash = NoHash
    /\ \E k \in Idx :
        /\ Done(k, "verify-otp") /\ reqs[k] # r
        /\ reqs[k].status = 200
        /\ reqs[k].mobile = r.mobile /\ reqs[k].otp = r.otp

\* C2 as claimed: a second verify-otp with the code of a verify-otp that
\* succeeded fails with MismatchError ("Invalid OTP").
C2_SecondVerifyMismatch ==
    \A i \in Idx : SecondVerify(reqs[i]) => reqs[i].error = "Invalid OTP"

\* C2 as amended: a second verify-otp with the code of a verify-otp that
\* succeeded fails with ExpiredError (400 "OTP expired"), and mints no token.
C2_SecondVerifyExpired ==
    \A i \in Idx :
        SecondVerify(reqs[i])
        => /\ reqs[i].status = 400
           /\ reqs[i].error = "OTP expired"
           /\ reqs[i].token = NoToken

C2_Witness ==
    \E i \in Idx : SecondVerify(reqs[i]) /\ reqs[i].error = "OTP expired"

\* C3 as claimed: at most one verify-otp request succeeds with the code that
\* one request-otp issued (the hash it stored), in every interleaving.
C3_OneSuccessPerCode ==
    \A i \in Idx, k \in Idx :
        ( /\ Done(i, "verify-otp") /\ Done(k, "verify-otp")
          /\ reqs[i].status = 200 /\ reqs[k].status = 200
          /\ reqs[i].mobile = reqs[k].mobile
          /\ reqs[i].user.otpHash = reqs[k].user.otpHash )
        => i = k

\* C4: a verify-otp that finds the code of a request-otp which read the
\* clock at t (and so stored it at t or later), and tests the expiry at a
\* time strictly later than t + 2 minutes, fails with 400 "OTP expired" and
\* mints no token, whatever code it presents.
C4_VerifyAfterExpiryFails ==
    \A i \in Idx, j \in Idx :
        ( /\ Done(i, "verify-otp")
          /\ ReadCodeOf(reqs[i], reqs[j])
          /\ reqs[i].checkedAt > reqs[j].at + OtpTtlMs )
        => /\ reqs[i].status = 400
           /\ reqs[i].error = "OTP expired"
           /\ reqs[i].token = NoToken

C4_Witness ==
    \E i \in Idx, j \in Idx :
        /\ Done(i, "verify-otp")
        /\ ReadCodeOf(reqs[i], reqs[j])
        /\ reqs[i].otp = reqs[j].otp
        /\ reqs[i].checkedAt > reqs[j].at + OtpTtlMs
        /\ reqs[i].error = "OTP expired"

\* verify-otp request r presented the pending code and tested the expiry at
\* the instant equal to the stored otpExpiry
AtExpiryInstant(r) ==
    /\ r.route = "verify-otp" /\ r.pc = "done"
    /\ r.user.exists /\ r.user.otpExpiry # NullDate
    /\ r.checkedAt = r.user.otpExpiry
    /\ r.user.otpHash = BcryptHash(r.otp, r.user.otpHash.salt)

\* C5 as claimed: a verify-otp with the correct code that is evaluated at the
\* instant equal to the stored otpExpiry fails with "OTP expired".
C5_ExpiredAtExpiryInstant ==
    \A i \in Idx : AtExpiryInstant(reqs[i]) => reqs[i].error = "OTP expired"

\* C5 as amended: a verify-otp with the correct code that is evaluated at the
\* instant equal to the stored otpExpiry succeeds; a verify-otp fails with
\* "OTP expired" only when otpExpiry is unset or strictly before the instant
\* of the test.
C5_AcceptedAtExpiryInstant ==
    \A i \in Idx :
        /\ AtExpiryInstant(reqs[i]) => Verified(reqs[i], reqs[i].user.id)
        /\ ( Done(i, "verify-otp") /\ reqs[i].error = "OTP expired" )
           => \/ reqs[i].user.otpExpiry = NullDate
              \/ reqs[i].user.otpExpiry < reqs[i].checkedAt

C5_Witness ==
    \E i \in Idx : AtExpiryInstant(reqs[i]) /\ reqs[i].status = 200

\* the codes that a verify-otp for the phone would pass on to its store
\* write, if it found the identity as stored now and tested it now
Accepted(mobile) ==
    {c \in OtpCodes :
        /\ users[mobile].exists
        /\ VerifyOtpChecked([NewReq("verify-otp", NoHeader, NoBody, NullDate)
                                EXCEPT !.pc = "check", !.mobile = mobile,
                                       !.otp = c, !.user = users[mobile]],
                            now).pc = "save"}

WrittenPairs(mobile) ==
    {<<reqs[j].otpHash, reqs[j].otpExpiry>> :
        j \in {k \in Idx : /\ Done(k, "request-otp") /\ reqs[k].status = 200
                           /\ reqs[k].mobile = mobile}}

\* C7 as claimed: every request-otp for a valid phone number completes with
\* 200, in every interleaving, and the stored otpHash/otpExpiry are a pair
\* that one of them wrote (or the cleared pair).
C7_ConcurrentRequestsAllSucceed ==
    /\ \A j \in Idx :
        ( Done(j, "request-otp") /\ reqs[j].mobile \in Mobiles )
        => reqs[j].status = 200
    /\ \A m \in Mobiles :
        users[m].exists
        => \/ <<users[m].otpHash, users[m].otpExpiry>> \in WrittenPairs(m)
           \/ <<users[m].otpHash, users[m].otpExpiry>> = <<NoHash, NullDate>>

---------------------------------------------------------------------------
(* Properties: the Auth Gate *)

\* the header carries a well-formed token as its second piece
HasJwt(h) == h.present /\ Len(h.parts) >= 2 /\ h.parts[2].txt = "jwt"

\* the token of a header that carries one
TokenOf(h) == h.parts[2].tok

\* at clock value t the request carries no Authorization header, no token
\* part, a token that is not signed with the process secret, or a token
\* whose expiry stamp (in seconds) has been reached
NoValidToken(h, t) ==
    \/ ~h.present
    \/ Len(h.parts) < 2
    \/ h.parts[2].txt # "jwt"
    \/ TokenOf(h).sig # JWT_SECRET
    \/ TokenOf(h).exp * MsPerSec <= t

\* C8: a request to a protected route without a valid token is answered 401
\* on arrival, is not handed to the route handler, and the step changes
\* neither collection; a request that was answered 401 takes no further
\* step; and every change of a collection is the store write of a request
\* that carried a valid token (games) or of an auth route (users).
C8_NoValidTokenIs401 ==
    [][ /\ Len(reqs') = Len(reqs) + 1
           => LET r == reqs'[Len(reqs')] IN
              ( r.route \in GateRoutes /\ NoValidToken(r.header, now) )
              => /\ r.pc = "done" /\ r.status = 401
                 /\ r.userId = 0 /\ r.game = NoGame
                 /\ users' = users /\ games' = games
        /\ \A i \in Idx : reqs[i].status = 401 => reqs'[i] = reqs[i]
        /\ games' # games
           => \E i \in Idx :
                /\ reqs[i].route = "play" /\ Returns(i)
                /\ ~NoValidToken(reqs[i].header, reqs[i].at)
        /\ users' # users
           => \E i \in Idx : reqs[i].route \in AuthRoutes /\ Returns(i) ]_vars

C8_Witness ==
    \E i \in Idx :
        /\ reqs[i].route = "play" /\ reqs[i].pc = "done"
        /\ ValidChoice(reqs[i].body.choice)
        /\ Len(games) = InitGameRounds
        /\ HasJwt(reqs[i].header)
        /\ TokenOf(reqs[i].header) \in Minted
        /\ TokenOf(reqs[i].header).exp * MsPerSec <= reqs[i].at
        /\ reqs[i].status = 401
        /\ reqs[i].error = "Invalid or expired token"

---------------------------------------------------------------------------
(* Properties: the rounds of an identity *)

\* the number of stored rounds of an identity with a result
RoundsWith(userId, result) ==
    Cardinality({x \in 1..Len(games) :
                    games[x].userId = userId /\ games[x].result = result})

\* the handler of a request to a protected route answers 200 in this step
Answers(i) ==
    /\ i \in 1..Len(reqs')
    /\ i \in Idx => reqs[i].pc # "done"
    /\ reqs'[i].route \in GateRoutes
    /\ reqs'[i].pc = "done" /\ reqs'[i].status = 200

\* C10: GET /history returns, and GET /scoreboard counts, only stored rounds
\* whose userId is the identity key of the caller's token, and POST /play
\* stores its round under that key, whatever userId the body carries.
C10_RoundsOfCallerOnly ==
    [][\A i \in 1..Len(reqs') :
        Answers(i)
        => LET r == reqs'[i]
               k == TokenOf(r.header).userId
           IN  /\ r.route = "history"
                  => \A n \in 1..Len(r.list) :
                        /\ r.list[n].userId = k
                        /\ \E x \in 1..Len(games) : games[x] = r.list[n]
               /\ r.route = "scoreboard"
                  => \A res \in {"win", "lose", "draw"} :
                        r.stats[res] = RoundsWith(k, res)
               /\ r.route = "play"
                  => /\ r.game.userId = k
                     /\ games' = Append(games, r.game)]_vars

C10_Witness ==
    \E i \in Idx :
        /\ Done(i, "history") /\ reqs[i].status = 200
        /\ reqs[i].body.userId # 0
        /\ reqs[i].body.userId # TokenOf(reqs[i].header).userId
        /\ Len(reqs[i].list) > 0
        /\ \A n \in 1..Len(reqs[i].list) :
            reqs[i].list[n].userId = TokenOf(reqs[i].header).userId
        /\ \E x \in 1..Len(games) : games[x].userId = reqs[i].body.userId

---------------------------------------------------------------------------
(* Properties: the game *)

\* the three choices, and the pairs (x, y) in which x beats y
Choices == {Stone, Paper, Scissor}
Beats == {<<Stone, Scissor>>, <<Paper, Stone>>, <<Scissor, Paper>>}

\* the beats-relation applied to the two choices of a round
Relation(x, y) ==
    IF x = y THEN "draw" ELSE IF <<x, y>> \in Beats THEN "win" ELSE "lose"

\* request i is a POST /play that was answered 200
PlayedOk(i) == Done(i, "play") /\ reqs[i].status = 200

\* C11: every POST /play that answers 200 for a choice x of the three
\* returns x unchanged, a computer choice y of the three, and result draw
\* iff y = x, win iff (x, y) is (stone, scissor), (paper, stone) or
\* (scissor, paper), and lose otherwise; for every x, of the two other
\* computer choices exactly one gives win and exactly one gives lose.
C11_OutcomeFollowsBeatsRelation ==
    /\ \A i \in Idx :
        PlayedOk(i)
        => LET x == reqs[i].body.choice.s
               y == reqs[i].game.computerChoice
               res == reqs[i].game.result
           IN  /\ reqs[i].game.userChoice = x
               /\ x \in Choices /\ y \in Choices
               /\ res = "draw" <=> y = x
               /\ res = "win" <=> <<x, y>> \in Beats
               /\ res = "lose" <=> ( y # x /\ <<x, y>> \notin Beats )
    /\ \A x \in Choices :
        /\ Cardinality({y \in Choices \ {x} : Outcome(x, y) = "win"}) = 1
        /\ Cardinality({y \in Choices \ {x} : Outcome(x, y) = "lose"}) = 1

C11_Witness ==
    \E i \in Idx, j \in Idx :
        /\ PlayedOk(i) /\ PlayedOk(j)
        /\ i > Len(InitGameReqs) /\ j > Len(InitGameReqs)
        /\ reqs[i].game.userChoice = Scissor /\ reqs[j].game.userChoice = Scissor
        /\ reqs[i].game.computerChoice = Paper /\ reqs[i].game.result = "win"
        /\ reqs[j].game.computerChoice = Stone /\ reqs[j].game.result = "lose"

\* every stored round has its two choices among the three and the result
\* of the beats-relation applied to them
RoundsWellFormed ==
    \A x \in 1..Len(games) :
        /\ games[x].userChoice \in Choices
        /\ games[x].computerChoice \in Choices
        /\ games[x].result = Relation(games[x].userChoice, games[x].computerChoice)

\* a step keeps every stored round as it is and in its place; a POST /play
\* that answers 200 in the step appends one round, the triple it returns;
\* and the log changes in no other step
RoundsAppendOnly ==
    /\ Len(games') >= Len(games)
    /\ \A x \in 1..Len(games) : games'[x] = games[x]
    /\ \A i \in Idx :
        ( Returns(i) /\ reqs[i].route = "play" /\ reqs'[i].status = 200 )
        => /\ Len(games') = Len(games) + 1
           /\ games'[Len(games')].userChoice = reqs'[i].game.userChoice
           /\ games'[Len(games')].computerChoice = reqs'[i].game.computerChoice
           /\ games'[Len(games')].result = reqs'[i].game.result
           /\ games'[Len(games')].userId = reqs'[i].userId
    /\ games' # games
       => \E i \in Idx :
            Returns(i) /\ reqs[i].route = "play" /\ reqs'[i].status = 200

\* C12: in every reachable state every stored round has userChoice and
\* computerChoice in {stone, paper, scissor} and the result of the
\* beats-relation applied to them; every POST /play that answers 200 appends
\* exactly one round, equal to the triple it returns; and no step modifies
\* or deletes a stored round.
C12_RoundLogAppendOnly == []RoundsWellFormed /\ [][RoundsAppendOnly]_vars

C12_Witness ==
    \E i \in Idx :
        /\ PlayedOk(i) /\ i > Len(InitGameReqs)
        /\ Len(games) = InitGameRounds + 2
        /\ games[Len(games)] = reqs[i].game
        /\ games[Len(games)].result = "win"
        /\ games[Len(games) - 1].result = "draw"
        /\ games[1] = InitGameReqs[5].game

\* the number of stored rounds of an identity
RoundsOf(userId) == Cardinality({x \in 1..Len(games) : games[x].userId = userId})

\* C13: when GET /scoreboard answers 200 for an identity, its win, lose and
\* draw counts are the numbers of the rounds stored for that identity with
\* that result, and their sum is the number of all rounds stored for the
\* identity, also when that number exceeds the cap of a history.
C13_ScoreboardCountsAllRounds ==
    [][\A i \in Idx :
        ( Returns(i) /\ reqs[i].route = "scoreboard" /\ reqs'[i].status = 200 )
        => LET st == reqs'[i].stats
               k == reqs[i].userId
           IN  /\ st.win = RoundsWith(k, "win")
               /\ st.lose = RoundsWith(k, "lose")
               /\ st.draw = RoundsWith(k, "draw")
               /\ st.win + st.lose + st.draw = RoundsOf(k)]_vars

C13_Witness ==
    \E i \in Idx :
        /\ Done(i, "scoreboard") /\ reqs[i].status = 200
        /\ reqs[i].stats.win + reqs[i].stats.lose + reqs[i].stats.draw
                = LogRounds + 1
        /\ reqs[i].stats.win + reqs[i].stats.lose + reqs[i].stats.draw
                = RoundsOf(reqs[i].userId)
        /\ LogRounds + 1 > HistoryLimit

\* C14: when GET /history answers 200 for an identity with n stored rounds,
\* the list has min(n, 10) records, never more than 10; the records are
\* different rounds stored for the identity; and no round of the identity
\* that is left out was created later than a round of the list.
C14_HistoryIsMostRecentTen ==
    [][\A i \in Idx :
        ( Returns(i) /\ reqs[i].route = "history" /\ reqs'[i].status = 200 )
        => LET l == reqs'[i].list
               k == reqs[i].userId
               n == RoundsOf(k)
               in(g) == \E m \in 1..Len(l) : l[m] = g
           IN  /\ Len(l) = IF n < 10 THEN n ELSE 10
               /\ Len(l) <= 10
               /\ \A m \in 1..Len(l) :
                    /\ l[m].userId = k
                    /\ \E x \in 1..Len(games) : games[x] = l[m]
                    /\ \A m2 \in 1..Len(l) : l[m2] = l[m] => m2 = m
               /\ \A x \in 1..Len(games) :
                    ( games[x].userId = k /\ ~in(games[x]) )
                    => \A m \in 1..Len(l) :
                           ~(games[x].createdAt > l[m].createdAt)]_vars

C14_Witness ==
    \E i \in Idx :
        /\ Done(i, "history") /\ reqs[i].status = 200
        /\ RoundsOf(reqs[i].userId) = LogRounds + 1
        /\ Len(reqs[i].list) = 10
        /\ reqs[i].list[1].createdAt = 10
        /\ reqs[i].list[10].createdAt = 2

\* request i is a GET /history that was answered 200
HistoryOk(i) == Done(i, "history") /\ reqs[i].status = 200

\* C15 as claimed: in every list that GET /history returns, each record has a
\* createdAt strictly greater than the record after it.
C15_HistoryStrictlyDescending ==
    \A i \in Idx :
        HistoryOk(i)
        => \A m \in 1..(Len(reqs[i].list) - 1) :
               reqs[i].list[m].createdAt > reqs[i].list[m + 1].createdAt

\* C15 as amended: in every list that GET /history returns, each record has
\* a createdAt greater than or equal to that of the record after it; two
\* rounds recorded at the same clock value are adjacent, in either order.
C15_HistoryDescending ==
    \A i \in Idx :
        HistoryOk(i)
        => \A m \in 1..(Len(reqs[i].list) - 1) :
               reqs[i].list[m].createdAt >= reqs[i].list[m + 1].createdAt

C15_Witness ==
    \E i \in Idx :
        /\ HistoryOk(i)
        /\ Len(reqs[i].list) = 2
        /\ reqs[i].list[1].id # reqs[i].list[2].id
        /\ reqs[i].list[1].createdAt = reqs[i].list[2].createdAt

\* the body of a POST /play carries no choice, or a value that is not one of
\* the three strings
ChoiceOutside(body) ==
    \/ body.choice.t # "string"
    \/ body.choice.s \notin Choices

\* C17: a POST /play that arrives with a valid token and a choice that is
\* missing or outside {stone, paper, scissor} is answered 400 "Invalid
\* choice" on arrival, holds no round, and leaves the games collection, the
\* caller's history and the caller's scoreboard as they were; and a request
\* answered 400 takes no further step.
C17_InvalidChoiceWritesNothing ==
    [][ /\ Len(reqs') = Len(reqs) + 1
           => LET r == reqs'[Len(reqs')] IN
              ( /\ r.route = "play"
                /\ ~NoValidToken(r.header, now)
                /\ ChoiceOutside(r.body) )
              => LET k == TokenOf(r.header).userId IN
                 /\ r.pc = "done" /\ r.status = 400
                 /\ r.error = "Invalid choice"
                 /\ r.game = NoGame
                 /\ games' = games
                 /\ \A m \in Mobiles, first \in BOOLEAN :
                        users[m].id = k
                        => /\ HistoryOf(users[m].id, first)'
                                = HistoryOf(users[m].id, first)
                           /\ StatsOf(users[m].id)' = StatsOf(users[m].id)
        /\ \A i \in Idx : reqs[i].status = 400 => reqs'[i] = reqs[i]
        /\ \A i \in Idx :
            ( Returns(i) /\ reqs[i].route = "play" /\ games' # games )
            => ~ChoiceOutside(reqs[i].body) ]_vars

C17_Witness ==
    \E i \in Idx, j \in Idx :
        /\ i < j
        /\ Done(i, "play") /\ reqs[i].status = 400
        /\ reqs[i].body.choice.t = "string" /\ reqs[i].body.choice.s \notin Choices
        /\ reqs[i].error = "Invalid choice"
        /\ Len(games) = InitGameRounds
        /\ Done(j, "scoreboard") /\ reqs[j].status = 200
        /\ reqs[j].header = reqs[i].header
        /\ reqs[j].stats.win + reqs[j].stats.lose + reqs[j].stats.draw = 1

---------------------------------------------------------------------------
(* Properties: validation and frame of the auth routes *)

\* the mobile field is missing, is not a string, or does not match
\* ^\d{10}$ after trimming
InvalidMobile(v) == v.t # "string" \/ ~MatchesDigits(Trim(v.s), 10)

\* the otp field is missing, is not a string, or does not match ^\d{4}$
\* after trimming
InvalidOtp(v) == v.t # "string" \/ ~MatchesDigits(Trim(v.s), 4)

\* the body of a request to an auth route does not pass the validation
InvalidBody(r) ==
    \/ r.route = "request-otp" /\ InvalidMobile(r.body.mobile)
    \/ r.route = "verify-otp"
        /\ ( InvalidMobile(r.body.mobile) \/ InvalidOtp(r.body.otp) )

\* C16 as claimed: a request to an auth route whose body does not pass the
\* validation is answered 400 on arrival, never 500; it creates or modifies
\* no identity and gets no token.
C16_InvalidInputIs400 ==
    [][ Len(reqs') = Len(reqs) + 1
        => LET r == reqs'[Len(reqs')] IN
           InvalidBody(r)
           => /\ r.pc = "done" /\ r.status = 400
              /\ r.token = NoToken
              /\ users' = users ]_vars

\* C18 as claimed: a verify-otp that read the identity before a request-otp
\* stored a new code for the phone neither answers 200 after that code was
\* stored nor clears the newly stored otpHash and otpExpiry.
C18_StaleVerifyKeepsNewCode ==
    [][\A i \in Idx :
        ( /\ reqs[i].route = "verify-otp" /\ Returns(i)
          /\ reqs[i].user.exists
          /\ users[reqs[i].mobile].otpHash.set
          /\ users[reqs[i].mobile].otpHash # reqs[i].user.otpHash )
        => /\ reqs'[i].status # 200
           /\ users'[reqs[i].mobile] = users[reqs[i].mobile]]_vars

\* verify-otp request i is answered in this step, and not with 200
VerifyFails(i) ==
    /\ i \in 1..Len(reqs')
    /\ i \in Idx => reqs[i].pc # "done"
    /\ reqs'[i].route = "verify-otp"
    /\ reqs'[i].pc = "done" /\ reqs'[i].status # 200

\* C19: a verify-otp that fails is answered 400, gets no token and leaves
\* the users collection as it was, so the pending code stays pending; the
\* error is the validation error when the body is invalid, else "User not
\* found" when no identity is stored for the phone, else "OTP expired" when
\* the otpExpiry it read is unset or past, whatever code it presents, else
\* "Invalid OTP", the presented code not being the one of the hash it read.
C19_FailedVerifyChangesNothing ==
    [][\A i \in 1..Len(reqs') :
        VerifyFails(i)
        => LET r == reqs'[i] IN
           /\ r.status = 400
           /\ r.token = NoToken
           /\ users' = users
           /\ r.error =
                IF InvalidBody(r)
                THEN IF Falsy(r.body.mobile) \/ Falsy(r.body.otp)
                     THEN "Mobile and OTP required"
                     ELSE "Invalid mobile or OTP format"
                ELSE IF ~users[r.mobile].exists /\ ~r.user.exists
                THEN "User not found"
                ELSE IF r.user.otpExpiry = NullDate \/ r.user.otpExpiry < now
                THEN "OTP expired"
                ELSE "Invalid OTP"
           /\ r.error = "Invalid OTP" => r.user.otpHash.code # r.otp]_vars

C19_Witness ==
    \E i \in Idx, j \in Idx, k \in Idx :
        /\ k < j /\ j < i
        /\ Done(k, "request-otp") /\ reqs[k].status = 200
        /\ Done(j, "verify-otp") /\ ReadCodeOf(reqs[j], reqs[k])
        /\ reqs[j].otp # reqs[k].otp
        /\ reqs[j].error = "Invalid OTP"
        /\ Done(i, "verify-otp") /\ ReadCodeOf(reqs[i], reqs[k])
        /\ reqs[i].otp = reqs[k].otp
        /\ reqs[i].status = 200

\* C20 as claimed: in every reachable state each stored identity has otpHash
\* set if and only if otpExpiry is set, and no verify-otp is answered 500.
C20_HashSetIffExpirySet ==
    /\ \A m \in Mobiles :
        users[m].exists
        => ( users[m].otpHash.set <=> users[m].otpExpiry # NullDate )
    /\ \A i \in Idx : reqs[i].route = "verify-otp" => reqs[i].status # 500

====
